---- MODULE Spec2Model ----
(***************************************************************************)
(* Model of updateGit's "pull" run: main -> runUpdate ->                   *)
(* UpdateRepositoriesWithConfig, with the filter and the backup manager    *)
(* as the orchestrator sees them.                                          *)
(*                                                                         *)
(* One run of the process is one behaviour.  The configuration is fixed in *)
(* Init; what the run reads from its environment (PATH, the base           *)
(* directory, the backup root, the outcome and duration of each git pull)  *)
(* is drawn when the code reads it.                                        *)
(***************************************************************************)
EXTENDS Integers, Sequences, FiniteSets, TLC

\* ------------------------------------------------------------------ bounds
\* Largest number of entries in the base directory.
MaxRepos == 2
\* Largest git.max_concurrent tried.
MaxWorkers == 2
\* A running git pull is observed for at most MaxTicks clock ticks.
MaxTicks == 2
\* Seconds per clock tick.
TickSeconds == 30

\* ------------------------------------------------------- program constants
NIL == "nil"

\* time.Second, in seconds.
Second == 1
Minute == 60 * Second
\* config.Timeout: "Default timeout for git operations in seconds".
ConfigTimeout == 30

\* Entry names the base directory may hold, in the order os.ReadDir returns
\* them (sorted by file name).
NameOrder == <<"a", "b", "c">>
Names == {NameOrder[i] : i \in 1..Len(NameOrder)}

\* What an entry of the base directory is:
\*   "repo"      a directory with a .git subdirectory, HEAD a symbolic ref
\*   "detached"  a directory with a .git subdirectory, symbolic-ref fails
\*   "dir"       a directory without .git
\*   "file"      not a directory
Kinds == {"repo", "detached", "dir", "file"}

RECURSIVE SortedSeq(_)
SortedSeq(S) ==
    IF S = {} THEN <<>>
    ELSE LET m == CHOOSE x \in S : \A y \in S : x <= y
         IN  <<m>> \o SortedSeq(S \ {m})

\* One entry of the base directory as the scanner observes it:
\*   mode    what os.ReadDir reports (Lstat): "dir", "file" or "symlink"
\*   git     what os.Stat(entry/.git) reports: "absent", "file" or "dir"
\*   head    "ref" when git symbolic-ref HEAD succeeds, "none" when it fails
\*   nested  a repository lies deeper inside the entry
DirEntry(name, kind) ==
    [name |-> name,
     mode |-> IF kind = "file" THEN "file" ELSE "dir",
     git |-> IF kind \in {"repo", "detached"} THEN "dir" ELSE "absent",
     head |-> IF kind = "repo" THEN "ref" ELSE "none",
     nested |-> FALSE]

Listing(S, k) ==
    LET s == SortedSeq(S)
    IN  [i \in 1..Len(s) |-> DirEntry(NameOrder[s[i]], k[s[i]])]

\* The directory listings a run may observe.
Listings ==
    UNION { {Listing(S, k) : k \in [S -> Kinds]} :
            S \in {T \in SUBSET (1..Len(NameOrder)) : Cardinality(T) <= MaxRepos} }

\* The pattern arguments NewFilter may receive: none, a malformed include
\* pattern, a malformed exclude pattern.  "[" does not compile.
PatternArgs == {<<"", "">>, <<"[", "">>, <<"", "[">>}

VARIABLES
    cfg,            \* config.Properties as resolved for this run
    patternArgs,    \* <<includePattern, excludePattern>> handed to NewFilter
    pc,             \* position of the run
    precond,        \* precondition errors that occurred in this run
    repoFilter,     \* runUpdate's repoFilter
    backupManager,  \* runUpdate's backupManager
    updateConfig,   \* git.UpdateConfig handed to the orchestrator
    entries,        \* the listing os.ReadDir returned
    unwritable,     \* repositories whose backup target cannot be written
    repositories,   \* UpdateRepositoriesWithConfig's repositories
    idx,            \* index of the loop over repositories
    successCount,
    errorCount,
    elapsed,        \* seconds the running git pull has been running
    events,         \* history: what the run did to which repository
    exitStatus,     \* "running", then "ok" (exit code 0) or "failed" (exit code 1)
    fatalAt,        \* where a fatal log ended the run, or NIL
    call,           \* a single operation called on its own: its name and arguments
    ret             \* what that operation has done and returned so far

vars == <<cfg, patternArgs, pc, precond, repoFilter, backupManager, updateConfig,
          entries, unwritable, repositories, idx, successCount, errorCount,
          elapsed, events, exitStatus, fatalAt, call, ret>>

\* ----------------------------------------------------------------- helpers
\* common.Logger("fatal", ...): zerolog's Fatal ends the process with code 1.
LoggerFatal(where) ==
    /\ pc' = "exited"
    /\ exitStatus' = "failed"
    /\ fatalAt' = where

\* A function returned nil to cobra: the process ends with code 0.
ReturnNil ==
    /\ pc' = "exited"
    /\ exitStatus' = "ok"
    /\ fatalAt' = NIL

Goto(p) ==
    /\ pc' = p
    /\ UNCHANGED <<exitStatus, fatalAt>>

Event(op, repo) == [op |-> op, repo |-> repo]

\* No operation is called on its own during a run of the process.
NoCall == <<>>

\* A pointer is <<>> (nil) or <<v>>.
NilPtr == <<>>
Ptr(v) == <<v>>
Deref(p) == p[1]

\* A value of interface type is nil only when nothing was stored in it; a nil
\* *T stored in an interface{} is a non-nil interface value.
Iface(type, ptr) == [type |-> type, ptr |-> ptr]
NilIface == [type |-> NIL, ptr |-> NilPtr]

\* Method sets of the concrete types, as name and signature.
FilterMethods ==
    { [name |-> "ShouldProcess", sig |-> "func(string) bool"],
      [name |-> "GetStats", sig |-> "func() map[string]interface{}"],
      [name |-> "FilterRepositories", sig |-> "func([]string) []string"] }

BackupManagerMethods ==
    { [name |-> "CreateBackup", sig |-> "func(string, string) (*BackupInfo, error)"],
      [name |-> "RestoreBackup", sig |-> "func(*BackupInfo) error"],
      [name |-> "CleanupOldBackups", sig |-> "func(int) error"],
      [name |-> "GetBackupStats", sig |-> "func() map[string]interface{}"] }

MethodSet(type) ==
    CASE type = "*filter.Filter" -> FilterMethods
      [] type = "*backup.BackupManager" -> BackupManagerMethods
      [] OTHER -> {}

\* The interfaces the orchestrator asserts its collaborators to.
MatcherIface == { [name |-> "Match", sig |-> "func(string) bool"] }
BackuperIface == { [name |-> "CreateBackup", sig |-> "func(string, string) error"] }

\* x.(I): ok iff the dynamic type of x has every method of I, same signature.
TypeAssert(x, iface) == x # NilIface /\ iface \subseteq MethodSet(x.type)

\* ------------------------------------------------------------------ filter
\* regexp.Compile: the error of a pattern that does not compile, or NIL.
CompileError(p) ==
    CASE p = "[" -> "missing closing ]"
      [] p = "(" -> "missing closing )"
      [] OTHER -> NIL

\* regexp.Compile: does the pattern compile?
Compiles(p) == CompileError(p) = NIL

\* The names a compiled pattern matches (unanchored match on the name).
Language(p) ==
    CASE p = "a" -> {"a"}
      [] p = "b|c" -> {"b", "c"}
      [] p = "." -> Names
      [] OTHER -> {}

MatchString(p, name) == name \in Language(p)

\* Mutant: on a malformed exclude pattern the filter built so far is returned
\* together with the error.
NewFilterPartial(includePattern, excludePattern, skipRepos) ==
    IF includePattern # "" /\ ~Compiles(includePattern)
    THEN [err |-> includePattern, cause |-> CompileError(includePattern), filter |-> NilPtr]
    ELSE IF excludePattern # "" /\ ~Compiles(excludePattern)
    THEN [err |-> excludePattern, cause |-> CompileError(excludePattern),
          filter |-> Ptr([IncludePattern |-> IF includePattern # "" THEN includePattern ELSE NIL,
                          ExcludePattern |-> NIL,
                          SkipRepos |-> {}])]
    ELSE [err |-> NIL, cause |-> NIL,
          filter |-> Ptr([IncludePattern |-> IF includePattern # "" THEN includePattern ELSE NIL,
                          ExcludePattern |-> IF excludePattern # "" THEN excludePattern ELSE NIL,
                          SkipRepos |-> skipRepos])]

\* filter.NewFilter: [err, cause, filter]; err is NIL or the FilterError's
\* Pattern, cause its Err; on an error no filter is returned.
NewFilter(includePattern, excludePattern, skipRepos) ==
    IF includePattern # "" /\ ~Compiles(includePattern)
    THEN [err |-> includePattern, cause |-> CompileError(includePattern), filter |-> NilPtr]
    ELSE IF excludePattern # "" /\ ~Compiles(excludePattern)
    THEN [err |-> excludePattern, cause |-> CompileError(excludePattern), filter |-> NilPtr]
    ELSE [err |-> NIL, cause |-> NIL,
          filter |-> Ptr([IncludePattern |-> IF includePattern # "" THEN includePattern ELSE NIL,
                          ExcludePattern |-> IF excludePattern # "" THEN excludePattern ELSE NIL,
                          SkipRepos |-> skipRepos])]

\* Mutant: a name the include pattern matches is accepted before the exclude
\* pattern is looked at.
ShouldProcessIncludeFirst(f, repoName) ==
    IF repoName \in f.SkipRepos THEN FALSE
    ELSE IF f.IncludePattern # NIL /\ MatchString(f.IncludePattern, repoName) THEN TRUE
    ELSE IF f.ExcludePattern # NIL /\ MatchString(f.ExcludePattern, repoName) THEN FALSE
    ELSE IF f.IncludePattern # NIL THEN FALSE
    ELSE TRUE

\* Filter.ShouldProcess
ShouldProcess(f, repoName) ==
    IF repoName \in f.SkipRepos THEN FALSE
    ELSE IF f.ExcludePattern # NIL /\ MatchString(f.ExcludePattern, repoName) THEN FALSE
    ELSE IF f.IncludePattern # NIL /\ ~MatchString(f.IncludePattern, repoName) THEN FALSE
    ELSE TRUE

\* Mutant: a name that was already kept is not kept again.
FilterRepositoriesOnce(f, repos) ==
    LET RECURSIVE Loop(_, _)
        Loop(rest, filtered) ==
            IF rest = <<>> THEN filtered
            ELSE Loop(Tail(rest),
                      IF /\ ShouldProcess(f, Head(rest))
                         /\ \A i \in DOMAIN filtered : filtered[i] # Head(rest)
                      THEN Append(filtered, Head(rest))
                      ELSE filtered)
    IN  Loop(repos, <<>>)

\* Filter.FilterRepositories: the loop appends each name ShouldProcess accepts.
FilterRepositories(f, repos) ==
    LET RECURSIVE Loop(_, _)
        Loop(rest, filtered) ==
            IF rest = <<>> THEN filtered
            ELSE Loop(Tail(rest),
                      IF ShouldProcess(f, Head(rest))
                      THEN Append(filtered, Head(rest))
                      ELSE filtered)
    IN  Loop(repos, <<>>)

\* ----------------------------------------------------------------- scanner
\* git.IsGitRepository: path/.git exists and is a directory.
\* entry.IsDir() of an os.ReadDir entry.
IsDir(e) == e.mode = "dir"

\* Mutant: a repository deeper inside the entry is recognised too.
IsGitRepositoryDeep(e) == e.git = "dir" \/ e.nested

IsGitRepository(e) == e.git = "dir"

\* git.GetCurrentBranch: [branch, err].  HEAD of a "repo" entry is
\* refs/heads/main; git symbolic-ref fails on a "detached" entry.
GetCurrentBranch(e) ==
    IF e.head # "ref"
    THEN [branch |-> <<"unknown">>, err |-> TRUE]
    ELSE LET parts == <<"refs", "heads", "main">>
         IN  [branch |-> IF Len(parts) >= 3 THEN SubSeq(parts, 3, Len(parts)) ELSE parts,
              err |-> FALSE]

\* The Repository value FindRepositories appends for a recognised entry.
Repository(e) ==
    [Path |-> <<"baseDir", e.name>>,
     Name |-> e.name,
     CurrentBranch |-> GetCurrentBranch(e).branch,
     IsValid |-> TRUE]

\* Mutant: an entry whose branch is unknown is left out.
FindRepositoriesKnownBranch(listing) ==
    LET found == SelectSeq(listing, LAMBDA e : /\ IsDir(e)
                                               /\ IsGitRepository(e)
                                               /\ ~GetCurrentBranch(e).err)
    IN  [i \in 1..Len(found) |-> Repository(found[i])]

\* git.FindRepositories, after a successful os.ReadDir.
FindRepositories(listing) ==
    LET found == SelectSeq(listing, LAMBDA e : IsDir(e) /\ IsGitRepository(e))
    IN  [i \in 1..Len(found) |-> Repository(found[i])]

RepoNames(repos) == {repos[i].Name : i \in 1..Len(repos)}

\* ------------------------------------------------------------ orchestrator
\* runUpdate: the timeout handed to the orchestrator.
ParallelTimeout ==
    LET t == ConfigTimeout * Second
    IN  IF t = 0 THEN 5 * Minute ELSE t

\* Mutant: the kept repositories are appended to the scanned list.
ApplyFilterAppends(c, repos) == repos \o repos

\* UpdateRepositoriesWithConfig, "Apply filter if set".
ApplyFilter(c, repos) ==
    IF c.Filter # NilIface /\ TypeAssert(c.Filter, MatcherIface)
    THEN SelectSeq(repos, LAMBDA r : ShouldProcess(Deref(c.Filter.ptr), r.Name))
    ELSE repos

\* UpdateRepositoriesWithConfig, "Backup if enabled": is CreateBackup called?
BackupAttempted(c) ==
    /\ c.BackupEnabled
    /\ c.BackupManager # NilIface
    /\ TypeAssert(c.BackupManager, BackuperIface)

\* Mutant: the loop walks the list from its end.
RepoAtReversed(i) == repositories[Len(repositories) + 1 - i]

\* The repository the loop body works on in iteration i.
RepoAt(i) == repositories[i]

\* Mutant: a successful pull is not counted.
SuccessNotCounted(err, n) == n

\* The tally after PullRepository returned (err: it returned an error).
NextSuccessCount(err, n) == IF err THEN n ELSE n + 1
NextErrorCount(err, n) == IF err THEN n + 1 ELSE n

\* Mutant: the loop is left at the first failed pull.
NextIndexAbort(err, i) == IF err THEN Len(repositories) + 1 ELSE i + 1

\* The loop goes on to the next repository whatever the pull returned.
NextIndex(err, i) == i + 1

\* Mutant: the run returns nil whatever the error count.
RunFailedNever(n) == FALSE

\* The run ends with a fatal log iff errorCount > 0.
RunFailed(n) == n > 0

\* ------------------------------------------------------------ preconditions
\* getinfo.CheckOperatingSystem: fatal unless runtime.GOOS is darwin or linux.
UnsupportedOS(goos) == goos \notin {"darwin", "linux"}

\* common.CheckCommandsAvailable: fatal when a required command is missing.
CommandsMissing(found) == ~found

\* runUpdate: fatal when the base directory does not exist.
BaseDirMissing(exists) == ~exists

\* initializeFilter: fatal when NewFilter returned an error.
FilterFatal(r) == r.err # NIL

\* Mutant: a failed os.MkdirAll is ignored.
BackupRootIgnored(created) == FALSE

\* backup.NewBackupManager: fatal when os.MkdirAll of the timestamped root fails.
BackupRootFatal(created) == ~created

\* git.FindRepositories: fatal when os.ReadDir fails.
ReadDirFatal(readable) == ~readable

\* Precondition errors of a run, as the environment produced them.
Precond(cond, what) == IF cond THEN precond \cup {what} ELSE precond

\* --------------------------------------------------------------------- Init
Configs ==
    [parallel : BOOLEAN, maxConcurrent : 1..MaxWorkers,
     backupEnabled : BOOLEAN, strategy : {"copy", "stash"},
     skipRepos : SUBSET Names]

EmptyUpdateConfig ==
    [Parallel |-> [Enabled |-> FALSE, MaxConcurrent |-> 0, Timeout |-> 0],
     BackupEnabled |-> FALSE, BackupManager |-> NilIface, Filter |-> NilIface]

Init ==
    /\ cfg \in Configs
    /\ patternArgs \in PatternArgs
    /\ pc = "main"
    /\ precond = {}
    /\ repoFilter = NilPtr
    /\ backupManager = NilPtr
    /\ updateConfig = EmptyUpdateConfig
    /\ entries = <<>>
    /\ unwritable = {}
    /\ repositories = <<>>
    /\ idx = 0
    /\ successCount = 0
    /\ errorCount = 0
    /\ elapsed = 0
    /\ events = <<>>
    /\ exitStatus = "running"
    /\ fatalAt = NIL
    /\ call = NoCall
    /\ ret = NoCall

\* ------------------------------------------------------------------ actions
\* main: getinfo.CheckOperatingSystem()
CheckOperatingSystem ==
    /\ pc = "main"
    /\ \E goos \in {"linux", "darwin", "windows"} :
        /\ precond' = Precond(goos \notin {"darwin", "linux"}, "os")
        /\ IF UnsupportedOS(goos) THEN LoggerFatal("CheckOperatingSystem")
                                  ELSE Goto("checkCommands")
    /\ UNCHANGED <<call, ret, cfg, patternArgs, repoFilter, backupManager, updateConfig, entries,
                   unwritable, repositories, idx, successCount, errorCount, elapsed,
                   events>>

\* main: common.CheckCommandsAvailable({"git"})
CheckCommandsAvailable ==
    /\ pc = "checkCommands"
    /\ \E found \in BOOLEAN :
        /\ precond' = Precond(~found, "git")
        /\ IF CommandsMissing(found) THEN LoggerFatal("CheckCommandsAvailable")
                                     ELSE Goto("runUpdate")
    /\ UNCHANGED <<call, ret, cfg, patternArgs, repoFilter, backupManager, updateConfig, entries,
                   unwritable, repositories, idx, successCount, errorCount, elapsed,
                   events>>

\* runUpdate: the base directory is checked and made absolute.
CheckBaseDir ==
    /\ pc = "runUpdate"
    /\ \E exists \in BOOLEAN :
        /\ precond' = Precond(~exists, "baseDir")
        /\ IF BaseDirMissing(exists) THEN LoggerFatal("runUpdate")
                                     ELSE Goto("initFilter")
    /\ UNCHANGED <<call, ret, cfg, patternArgs, repoFilter, backupManager, updateConfig, entries,
                   unwritable, repositories, idx, successCount, errorCount, elapsed,
                   events>>

\* runUpdate: initializeFilter()
InitializeFilter ==
    /\ pc = "initFilter"
    /\ LET r == NewFilter(patternArgs[1], patternArgs[2], cfg.skipRepos)
       IN  /\ precond' = Precond(\E i \in 1..2 : patternArgs[i] # "" /\ ~Compiles(patternArgs[i]),
                                 "pattern")
           /\ repoFilter' = r.filter
           /\ IF FilterFatal(r) THEN LoggerFatal("initializeFilter")
                                ELSE Goto("initBackup")
    /\ UNCHANGED <<call, ret, cfg, patternArgs, backupManager, updateConfig, entries, unwritable,
                   repositories, idx, successCount, errorCount, elapsed, events>>

\* Mutant: the manager is built whether or not backup is enabled.
BackupDisabledNever(c) == FALSE

\* initializeBackupManager: !config.Properties.Backup.Enabled
BackupDisabled(c) == ~c.backupEnabled

\* runUpdate: initializeBackupManager(), which builds the manager with
\* backup.NewBackupManager only when backup is enabled.
InitializeBackupManager ==
    /\ pc = "initBackup"
    /\ IF BackupDisabled(cfg)
       THEN /\ backupManager' = NilPtr
            /\ Goto("prepare")
            /\ UNCHANGED precond
       ELSE \E created \in BOOLEAN :
            /\ precond' = Precond(~created, "backupRoot")
            /\ IF BackupRootFatal(created)
               THEN /\ LoggerFatal("NewBackupManager")
                    /\ UNCHANGED backupManager
               ELSE /\ backupManager' = Ptr([BackupDir |-> <<"backups", "timestamp">>,
                                             Strategy |-> cfg.strategy,
                                             Timestamp |-> "timestamp"])
                    /\ Goto("prepare")
    /\ UNCHANGED <<call, ret, cfg, patternArgs, repoFilter, updateConfig, entries, unwritable,
                   repositories, idx, successCount, errorCount, elapsed, events>>

\* runUpdate: the git.UpdateConfig is built and the orchestrator is called.
PrepareConfig ==
    /\ pc = "prepare"
    /\ updateConfig' =
        [Parallel |-> [Enabled |-> cfg.parallel,
                       MaxConcurrent |-> cfg.maxConcurrent,
                       Timeout |-> ParallelTimeout],
         BackupEnabled |-> cfg.backupEnabled,
         BackupManager |-> Iface("*backup.BackupManager", backupManager),
         Filter |-> Iface("*filter.Filter", repoFilter)]
    /\ Goto("scan")
    /\ UNCHANGED <<call, ret, cfg, patternArgs, precond, repoFilter, backupManager, entries,
                   unwritable, repositories, idx, successCount, errorCount, elapsed,
                   events>>

\* Mutant: an empty scan result is not noticed.
NeverEmpty(repos) == FALSE

\* UpdateRepositoriesWithConfig: len(repositories) == 0 after the scan.
NoRepositories(repos) == Len(repos) = 0

\* UpdateRepositoriesWithConfig: FindRepositories(cfg.BaseDir) and the check
\* for an empty result, which logs a warning and returns nil.
Scan ==
    /\ pc = "scan"
    /\ \E readable \in (IF "baseDir" \in precond THEN {FALSE} ELSE BOOLEAN) :
        IF ReadDirFatal(readable)
        THEN /\ LoggerFatal("FindRepositories")
             /\ precond' = precond \cup {"readDir"}
             /\ UNCHANGED <<entries, unwritable, repositories, events>>
        ELSE \E listing \in Listings :
             \E u \in SUBSET RepoNames(FindRepositories(listing)) :
                /\ cfg.backupEnabled \/ u = {}
                /\ entries' = listing
                /\ unwritable' = u
                /\ repositories' = FindRepositories(listing)
                /\ IF NoRepositories(repositories')
                   THEN /\ events' = Append(events, Event("warning", "No git repositories found"))
                        /\ ReturnNil
                   ELSE /\ UNCHANGED events
                        /\ Goto("filter")
                /\ UNCHANGED precond
    /\ UNCHANGED <<call, ret, cfg, patternArgs, repoFilter, backupManager, updateConfig,
                   idx, successCount, errorCount, elapsed>>

\* UpdateRepositoriesWithConfig: the filter is applied and the counters start.
FilterStep ==
    /\ pc = "filter"
    /\ repositories' = ApplyFilter(updateConfig, repositories)
    /\ successCount' = 0
    /\ errorCount' = 0
    /\ idx' = 1
    /\ Goto("loop")
    /\ UNCHANGED <<call, ret, cfg, patternArgs, precond, repoFilter, backupManager, updateConfig,
                   entries, unwritable, elapsed, events>>

\* Loop body, first part: the BEGIN banner and GetBranches.
LoopBegin ==
    /\ pc = "loop"
    /\ idx <= Len(repositories)
    /\ events' = Append(events, Event("begin", RepoAt(idx).Name))
    /\ Goto("backup")
    /\ UNCHANGED <<call, ret, cfg, patternArgs, precond, repoFilter, backupManager, updateConfig,
                   entries, unwritable, repositories, idx, successCount, errorCount,
                   elapsed>>

\* Loop body: "Backup if enabled".  CreateBackup fails on a repository whose
\* backup target cannot be written; the error is logged and nothing else.
BackupStep ==
    /\ pc = "backup"
    /\ LET name == RepoAt(idx).Name
       IN  events' =
             IF BackupAttempted(updateConfig)
             THEN IF name \in unwritable
                  THEN events \o <<Event("backup", name), Event("backupError", name)>>
                  ELSE Append(events, Event("backup", name))
             ELSE events
    /\ Goto("pull")
    /\ UNCHANGED <<call, ret, cfg, patternArgs, precond, repoFilter, backupManager, updateConfig,
                   entries, unwritable, repositories, idx, successCount, errorCount,
                   elapsed>>

\* PullRepository: git pull is started in the repository.
PullStart ==
    /\ pc = "pull"
    /\ events' = Append(events, Event("pull", RepoAt(idx).Name))
    /\ elapsed' = 0
    /\ Goto("pulling")
    /\ UNCHANGED <<call, ret, cfg, patternArgs, precond, repoFilter, backupManager, updateConfig,
                   entries, unwritable, repositories, idx, successCount, errorCount>>

\* Time passes while cmd.Run() waits for git pull.
Tick ==
    /\ pc = "pulling"
    /\ elapsed < MaxTicks * TickSeconds
    /\ elapsed' = elapsed + TickSeconds
    /\ UNCHANGED <<call, ret, cfg, patternArgs, pc, precond, repoFilter, backupManager, updateConfig,
                   entries, unwritable, repositories, idx, successCount, errorCount,
                   events, exitStatus, fatalAt>>

\* git pull ends; PullRepository returns and the outcome is tallied.
PullReturn ==
    /\ pc = "pulling"
    /\ \E err \in BOOLEAN :
        /\ events' = Append(events, Event(IF err THEN "pullFailed" ELSE "pullOk",
                                          RepoAt(idx).Name))
        /\ successCount' = NextSuccessCount(err, successCount)
        /\ errorCount' = NextErrorCount(err, errorCount)
        /\ idx' = NextIndex(err, idx)
    /\ elapsed' = 0
    /\ Goto("loop")
    /\ UNCHANGED <<call, ret, cfg, patternArgs, precond, repoFilter, backupManager, updateConfig,
                   entries, unwritable, repositories>>

\* After the loop: the summary, and the fatal log when a repository failed.
Summary ==
    /\ pc = "loop"
    /\ idx > Len(repositories)
    /\ IF RunFailed(errorCount) THEN LoggerFatal("summary") ELSE ReturnNil
    /\ UNCHANGED <<call, ret, cfg, patternArgs, precond, repoFilter, backupManager, updateConfig,
                   entries, unwritable, repositories, idx, successCount, errorCount,
                   elapsed, events>>

Next ==
    \/ CheckOperatingSystem
    \/ CheckCommandsAvailable
    \/ CheckBaseDir
    \/ InitializeFilter
    \/ InitializeBackupManager
    \/ PrepareConfig
    \/ Scan
    \/ FilterStep
    \/ LoopBegin
    \/ BackupStep
    \/ PullStart
    \/ Tick
    \/ PullReturn
    \/ Summary

Spec == Init /\ [][Next]_vars

\* The steps of the program itself are taken when enabled.  Nothing makes the
\* git process end: PullReturn and Tick are left to the environment.
ProgramStep ==
    \/ CheckOperatingSystem
    \/ CheckCommandsAvailable
    \/ CheckBaseDir
    \/ InitializeFilter
    \/ InitializeBackupManager
    \/ PrepareConfig
    \/ Scan
    \/ FilterStep
    \/ LoopBegin
    \/ BackupStep
    \/ PullStart
    \/ Summary

FairSpec == Spec /\ WF_vars(ProgramStep)

\* ------------------------------------------------------- history operators
\* Positions of the events of one kind.
EventsOf(op) == {i \in DOMAIN events : events[i].op = op}

\* Positions where a pull of a repository returned.
Returns == EventsOf("pullOk") \cup EventsOf("pullFailed")

\* The run went through the orchestrator's loop to its end.
LoopEnded == pc = "exited" /\ idx >= 1

\* The repositories on which git pull was started, in the order of the starts.
PullOrder == SelectSeq(events, LAMBDA e : e.op = "pull")

\* The repositories being processed at this moment.
InProgress == IF pc \in {"backup", "pull", "pulling"} THEN {RepoAt(idx).Name} ELSE {}

\* The precondition errors the specification lists.
ListedPreconditions == {"git", "baseDir", "pattern", "backupRoot"}

\* ------------------------------------------------------------------- claims

\* C1: a repository whose name is in the skip list is never backed up and
\* never pulled.
C1_SkippedNeverPulled ==
    \A i \in DOMAIN events :
        events[i].op \in {"backup", "pull"} => events[i].repo \notin cfg.skipRepos

\* C2: with backup enabled and a BackupManager in the UpdateConfig, CreateBackup
\* is attempted on every repository before that repository is pulled.
C2_BackupBeforePull ==
    (updateConfig.BackupEnabled /\ updateConfig.BackupManager.ptr # NilPtr) =>
        \A i \in EventsOf("pull") :
            \E j \in EventsOf("backup") : j < i /\ events[j].repo = events[i].repo

\* C3: successCount + errorCount is the number of pulls that returned, each
\* counted in exactly one of the two counters, and at the end of the run it is
\* the number of repositories that were attempted.
C3_CountsMatchAttempts ==
    /\ successCount = Cardinality(EventsOf("pullOk"))
    /\ errorCount = Cardinality(EventsOf("pullFailed"))
    /\ pc = "exited" => successCount + errorCount = Cardinality(EventsOf("pull"))

C3_Witness ==
    /\ LoopEnded
    /\ successCount = 1
    /\ errorCount = 1

\* C4: a run in which no precondition error occurred ends as failed iff
\* errorCount > 0, and the failure is reported only after the last repository
\* was attempted; until then the run goes on.
C4_FailedIffErrors ==
    /\ (pc = "exited" /\ precond = {}) => (exitStatus = "failed" <=> errorCount > 0)
    /\ fatalAt = "summary" =>
          /\ errorCount > 0
          /\ Cardinality(Returns) = Len(repositories)
    /\ (idx >= 1 /\ idx <= Len(repositories)) => exitStatus = "running"

C4_Witness ==
    /\ LoopEnded
    /\ exitStatus = "failed"
    /\ Len(repositories) = 2
    /\ events[Len(events)] = Event("pullOk", repositories[2].Name)

\* C5: a failed pull is counted in errorCount, the failed repository is not
\* pulled again, and every repository after it is still attempted.
C5_FailureIsolated ==
    /\ errorCount = Cardinality(EventsOf("pullFailed"))
    /\ \A i, j \in EventsOf("pull") : events[i].repo = events[j].repo => i = j
    /\ LoopEnded =>
          \A k \in 1..Len(repositories) :
              \E i \in EventsOf("pull") : events[i].repo = repositories[k].Name

C5_Witness ==
    /\ LoopEnded
    /\ Len(repositories) = 2
    /\ \E i, j \in DOMAIN events :
          /\ i < j
          /\ events[i] = Event("pullFailed", repositories[1].Name)
          /\ events[j] = Event("pull", repositories[2].Name)

\* C6: when the backup of a repository fails, the failure is logged before the
\* repository is pulled, and the pull is still attempted.
C6_BackupFailureLogged ==
    updateConfig.BackupEnabled =>
        \A i \in EventsOf("pull") :
            events[i].repo \in unwritable =>
                \E j \in EventsOf("backupError") :
                    j < i /\ events[j].repo = events[i].repo

\* C7: a git pull never runs longer than the per-repository timeout.
C7_PullBoundedByTimeout ==
    pc = "pulling" => elapsed <= updateConfig.Parallel.Timeout

\* C8: in parallel mode with MaxConcurrent > 1 and at least two repositories,
\* a second repository is taken up while the pull of the first is running.
C8_ParallelOverlap ==
    (/\ updateConfig.Parallel.Enabled
     /\ updateConfig.Parallel.MaxConcurrent > 1
     /\ Len(repositories) >= 2
     /\ pc = "pulling"
     /\ idx = 1)
        ~> (/\ Len(repositories) >= 2
            /\ \E i \in EventsOf("begin") : events[i].repo = repositories[2].Name)

\* What the loop does instead: at most one repository is in progress.
AtMostOneInProgress == Cardinality(InProgress) <= 1

\* C9: with parallel mode disabled the repositories are pulled in the order of
\* the filtered list, and nothing is done to a repository before the pull of
\* every repository started earlier has returned.
C9_SequentialInOrder ==
    ~cfg.parallel =>
        /\ \A k \in 1..Len(PullOrder) : PullOrder[k].repo = repositories[k].Name
        /\ \A i \in DOMAIN events :
             \A j \in EventsOf("pull") :
                 (j < i /\ events[j].repo # events[i].repo) =>
                     \E r \in Returns :
                         j < r /\ r < i /\ events[r].repo = events[j].repo

C9_Witness ==
    /\ ~cfg.parallel
    /\ Len(repositories) = 2
    /\ Cardinality(Returns) = 2

C11_EmptyListWarns ==
    (pc \in {"loop", "exited"} /\ precond = {} /\ Len(repositories) = 0) =>
        /\ EventsOf("warning") # {}
        /\ EventsOf("backup") \cup EventsOf("pull") = {}
        /\ pc = "exited" => exitStatus = "ok"

C11_Witness ==
    /\ pc = "exited"
    /\ precond = {}
    /\ Len(entries) = 2
    /\ Len(repositories) = 0
    /\ exitStatus = "ok"

\* ------------------------------------------------- operations on their own
\* The state of the run while one operation is called on its own: the process
\* itself takes no step.
Idle ==
    /\ cfg = [parallel |-> FALSE, maxConcurrent |-> 1, backupEnabled |-> FALSE,
              strategy |-> "copy", skipRepos |-> {}]
    /\ patternArgs = <<"", "">>
    /\ pc = "call"
    /\ precond = {}
    /\ repoFilter = NilPtr
    /\ backupManager = NilPtr
    /\ updateConfig = EmptyUpdateConfig
    /\ entries = <<>>
    /\ unwritable = {}
    /\ repositories = <<>>
    /\ idx = 0
    /\ successCount = 0
    /\ errorCount = 0
    /\ elapsed = 0
    /\ events = <<>>
    /\ exitStatus = "running"
    /\ fatalAt = NIL

runVars == <<cfg, patternArgs, pc, precond, repoFilter, backupManager, updateConfig,
             entries, unwritable, repositories, idx, successCount, errorCount,
             elapsed, events, exitStatus, fatalAt>>

\* The operation has not returned yet.
Pending == [pending |-> TRUE]

\* ------------------------------------------------------ the filter, called
\* Longest list of names handed to FilterRepositories.
MaxLen == 3

\* Patterns handed to NewFilter: none, three that compile, two that do not.
Patterns == {"", "a", "b|c", ".", "[", "("}

NameSeqs == UNION {[1..n -> Names] : n \in 0..MaxLen}

FilterInit ==
    /\ Idle
    /\ call \in {[op |-> "NewFilter", includePattern |-> i, excludePattern |-> e,
                  skipRepos |-> k] : i \in Patterns, e \in Patterns, k \in SUBSET Names}
    /\ ret = Pending

\* filter.NewFilter(includePattern, excludePattern, skipRepos)
CallNewFilter ==
    /\ call.op = "NewFilter"
    /\ ret = Pending
    /\ ret' = NewFilter(call.includePattern, call.excludePattern, call.skipRepos)
    /\ UNCHANGED <<call, runVars>>

\* f.ShouldProcess(repoName) on the filter NewFilter returned
CallShouldProcess ==
    /\ call.op = "NewFilter"
    /\ ret # Pending
    /\ ret.err = NIL
    /\ \E name \in Names :
        /\ call' = [op |-> "ShouldProcess", f |-> Deref(ret.filter), repoName |-> name]
        /\ ret' = [result |-> ShouldProcess(Deref(ret.filter), name)]
    /\ UNCHANGED runVars

\* f.FilterRepositories(repos) on the filter NewFilter returned
CallFilterRepositories ==
    /\ call.op = "NewFilter"
    /\ ret # Pending
    /\ ret.err = NIL
    /\ \E repos \in NameSeqs :
        /\ call' = [op |-> "FilterRepositories", f |-> Deref(ret.filter), repos |-> repos]
        /\ ret' = [result |-> FilterRepositories(Deref(ret.filter), repos)]
    /\ UNCHANGED runVars

FilterNext ==
    \/ CallNewFilter
    \/ CallShouldProcess
    \/ CallFilterRepositories

FilterSpec == FilterInit /\ [][FilterNext]_vars

\* C12: ShouldProcess(name) is true iff name is not in skipRepos, the exclude
\* pattern is unset or does not match, and the include pattern is unset or
\* matches; a name both patterns match is rejected, and without patterns the
\* result is "name not in skipRepos".
C12_ShouldProcessIff ==
    call.op = "ShouldProcess" =>
        LET f == call.f
            name == call.repoName
        IN  /\ ret.result <=>
                  /\ name \notin f.SkipRepos
                  /\ (f.ExcludePattern = NIL \/ ~MatchString(f.ExcludePattern, name))
                  /\ (f.IncludePattern = NIL \/ MatchString(f.IncludePattern, name))
            /\ (/\ f.IncludePattern # NIL
                /\ f.ExcludePattern # NIL
                /\ MatchString(f.IncludePattern, name)
                /\ MatchString(f.ExcludePattern, name)) => ~ret.result
            /\ (f.IncludePattern = NIL /\ f.ExcludePattern = NIL) =>
                  (ret.result <=> name \notin f.SkipRepos)

C12_Witness ==
    /\ call.op = "ShouldProcess"
    /\ call.repoName = "b"
    /\ call.f.IncludePattern = "."
    /\ call.f.ExcludePattern = "b|c"
    /\ call.f.SkipRepos = {"a"}
    /\ ~ret.result

\* C13: FilterRepositories(repos) is the names of repos that ShouldProcess
\* accepts, each occurrence kept or dropped on its own, in the order of repos;
\* its length is len(repos) minus the number of rejected occurrences.
C13_FilterKeepsOrder ==
    call.op = "FilterRepositories" =>
        LET repos == call.repos
            kept == SortedSeq({i \in DOMAIN repos : ShouldProcess(call.f, repos[i])})
            dropped == {i \in DOMAIN repos : ~ShouldProcess(call.f, repos[i])}
        IN  /\ ret.result = [k \in 1..Len(kept) |-> repos[kept[k]]]
            /\ Len(ret.result) = Len(repos) - Cardinality(dropped)

C13_Witness ==
    /\ call.op = "FilterRepositories"
    /\ call.repos = <<"c", "b", "c">>
    /\ call.f.SkipRepos = {"b"}
    /\ ret.result = <<"c", "c">>

\* C14: NewFilter with a malformed include or exclude pattern returns an error
\* with that pattern and the compile error, and no filter; otherwise it returns
\* no error and a filter with every field set from its arguments.
C14_NewFilterAllOrNothing ==
    (call.op = "NewFilter" /\ ret # Pending) =>
        LET inc == call.includePattern
            exc == call.excludePattern
            bad == IF ~Compiles(inc) THEN inc ELSE exc
        IN  IF ~Compiles(inc) \/ ~Compiles(exc)
            THEN /\ ret.err = bad
                 /\ ret.cause = CompileError(bad)
                 /\ ret.cause # NIL
                 /\ ret.filter = NilPtr
            ELSE /\ ret.err = NIL
                 /\ ret.filter # NilPtr
                 /\ Deref(ret.filter) =
                        [IncludePattern |-> IF inc = "" THEN NIL ELSE inc,
                         ExcludePattern |-> IF exc = "" THEN NIL ELSE exc,
                         SkipRepos |-> call.skipRepos]

C14_Witness ==
    /\ call.op = "NewFilter"
    /\ call.includePattern = "a"
    /\ call.excludePattern = "("
    /\ ret # Pending
    /\ ret.err = "("
    /\ ret.filter = NilPtr

\* ----------------------------------------------------- the scanner, called
\* What one entry of the base directory may be.  Only a directory, or a link
\* to one, has something inside; git symbolic-ref needs a .git directory.
TreeEntries(name) ==
    { e \in [name : {name}, mode : {"dir", "file", "symlink"},
             git : {"absent", "file", "dir"}, head : {"ref", "none"},
             nested : BOOLEAN] :
        /\ e.mode = "file" => (e.git = "absent" /\ ~e.nested)
        /\ e.git # "dir" => e.head = "none" }

\* The base directories FindRepositories is called on, entries sorted by name.
Trees ==
    UNION { LET s == SortedSeq(S)
            IN  { t \in [1..Len(s) -> UNION {TreeEntries(n) : n \in Names}] :
                      \A i \in 1..Len(s) : t[i].name = NameOrder[s[i]] } :
            S \in {T \in SUBSET (1..Len(NameOrder)) : Cardinality(T) <= MaxRepos} }

ScanInit ==
    /\ Idle
    /\ call \in {[op |-> "FindRepositories", readable |-> TRUE, listing |-> t] : t \in Trees}
             \cup {[op |-> "FindRepositories", readable |-> FALSE, listing |-> <<>>]}
    /\ ret = Pending

\* git.FindRepositories(baseDir): the process ends inside the call when
\* os.ReadDir fails, otherwise the repositories are returned with a nil error.
CallFindRepositories ==
    /\ call.op = "FindRepositories"
    /\ ret = Pending
    /\ ret' = IF ReadDirFatal(call.readable)
              THEN [exited |-> TRUE, status |-> 1, repositories |-> <<>>, err |-> NIL]
              ELSE [exited |-> FALSE, status |-> 0,
                    repositories |-> FindRepositories(call.listing), err |-> NIL]
    /\ UNCHANGED <<call, runVars>>

ScanNext == CallFindRepositories

ScanSpec == ScanInit /\ [][ScanNext]_vars

\* C15: FindRepositories returns, in the order of the listing, exactly the
\* entries of baseDir that are directories and hold a directory named .git;
\* an entry without it is left out even when a repository lies deeper inside,
\* and so is an entry that is not a directory.
C15_ExactlyImmediateRepos ==
    (call.op = "FindRepositories" /\ ret # Pending /\ call.readable) =>
        LET t == call.listing
            repos == SelectSeq(t, LAMBDA e : e.mode = "dir" /\ e.git = "dir")
        IN  /\ Len(ret.repositories) = Len(repos)
            /\ \A i \in 1..Len(repos) :
                 /\ ret.repositories[i].Name = repos[i].name
                 /\ ret.repositories[i].Path = <<"baseDir", repos[i].name>>
            /\ \A i \in 1..Len(t) :
                 (t[i].git # "dir" \/ t[i].mode # "dir") =>
                     t[i].name \notin RepoNames(ret.repositories)

C15_Witness ==
    /\ call.op = "FindRepositories"
    /\ ret # Pending
    /\ Len(call.listing) = 2
    /\ call.listing[1].mode = "dir"
    /\ call.listing[1].git = "absent"
    /\ call.listing[1].nested
    /\ call.listing[2].mode = "dir"
    /\ call.listing[2].git = "dir"
    /\ RepoNames(ret.repositories) = {call.listing[2].name}

\* C16: a recognised repository whose current branch cannot be determined is
\* in the list FindRepositories returns, with CurrentBranch "unknown" and
\* IsValid true, and a run that went through the loop has pulled it.
C16_UnknownBranchStillPulled ==
    \A i \in 1..Len(entries) :
        (IsDir(entries[i]) /\ IsGitRepository(entries[i]) /\ GetCurrentBranch(entries[i]).err) =>
            /\ \E j \in 1..Len(repositories) :
                 /\ repositories[j].Name = entries[i].name
                 /\ repositories[j].CurrentBranch = <<"unknown">>
                 /\ repositories[j].IsValid
            /\ LoopEnded => \E k \in EventsOf("pull") : events[k].repo = entries[i].name

C16_Witness ==
    /\ LoopEnded
    /\ Len(entries) = 2
    /\ entries[1].head = "ref"
    /\ entries[2].git = "dir"
    /\ entries[2].head = "none"
    /\ \E k \in EventsOf("pullOk") : events[k].repo = entries[2].name

\* C17: when baseDir cannot be read, FindRepositories returns an error to its
\* caller and does not end the process itself.
C17_ScanReturnsError ==
    (call.op = "FindRepositories" /\ ret # Pending /\ ~call.readable) =>
        /\ ~ret.exited
        /\ ret.err # NIL

\* ------------------------------------------------ stash backup, called
\* Values of BackupManager.Timestamp: time.Now() in the layout 20060102-150405.
Timestamps == {"20261101-101500", "20261101-101501"}

\* Files of a working tree that may differ from HEAD.
TreeFiles == {"f", "g"}

\* Standard output of git status --porcelain: one line per changed file.
StatusOutput(changes) ==
    LET lines == <<"f", "g">>
    IN  SelectSeq(lines, LAMBDA l : l \in changes)

\* Mutant: a status query that failed counts as a clean tree.
hasUncommittedChangesFailOpen(out, err) == ~err /\ Len(out) > 0

\* BackupManager.hasUncommittedChanges, given what cmd.Output() returned.
hasUncommittedChanges(out, err) == IF err THEN TRUE ELSE Len(out) > 0

\* Mutant: the message does not carry the timestamp.
stashMessageFixed(bm) == <<"updateGit backup">>

\* createStashBackup: fmt.Sprintf("updateGit backup %s", bm.Timestamp)
stashMessage(bm) == <<"updateGit backup", bm.Timestamp>>

\* A command as exec.Command builds it, with cmd.Dir.
Command(argv, dir) == [argv |-> argv, dir |-> dir]

\* &BackupInfo{...} of the stash strategy; Timestamp is time.Now() and is left out.
StashBackupInfo(repoName, backupPath, repoPath) ==
    [Repository |-> repoName, BackupPath |-> backupPath, Strategy |-> "stash",
     OriginalPath |-> repoPath]

\* Mutant: the error does not name the operation that failed.
BackupErrorUnnamed(repoName, operation) == [Repository |-> repoName, Operation |-> "backup"]

\* &BackupError{Repository, Operation, Err}
BackupError(repoName, operation) == [Repository |-> repoName, Operation |-> operation]

StashInit ==
    /\ Idle
    /\ call \in {[op |-> "CreateBackup",
                  bm |-> [BackupDir |-> <<"backups", ts>>, Strategy |-> "stash", Timestamp |-> ts],
                  repoPath |-> <<"baseDir", n>>, repoName |-> n, changes |-> c] :
                  ts \in Timestamps, n \in Names, c \in SUBSET TreeFiles}
    /\ ret = Pending

\* createStashBackup, first statement: bm.hasUncommittedChanges(repoPath) runs
\* git status --porcelain.  A failed query may have written any part of its output.
CallHasUncommittedChanges ==
    /\ call.op = "CreateBackup"
    /\ ret = Pending
    /\ \E err \in BOOLEAN :
       \E out \in (IF err THEN {<<>>, StatusOutput(call.changes)}
                          ELSE {StatusOutput(call.changes)}) :
           ret' = [at |-> "checked",
                   cmds |-> <<Command(<<"git", "status", "--porcelain">>, call.repoPath)>>,
                   statusErr |-> err,
                   changes |-> hasUncommittedChanges(out, err),
                   info |-> NilPtr, err |-> NilPtr]
    /\ UNCHANGED <<call, runVars>>

\* createStashBackup, after the check: return the "git-stash" info or run
\* git stash push -u -m <message> and return its outcome.
CallCreateStashBackup ==
    /\ call.op = "CreateBackup"
    /\ ret # Pending
    /\ ret.at = "checked"
    /\ IF ~ret.changes
       THEN ret' = [ret EXCEPT !.at = "returned",
                               !.info = Ptr(StashBackupInfo(call.repoName, <<"git-stash">>,
                                                            call.repoPath))]
       ELSE \E stashErr \in BOOLEAN :
            LET msg == stashMessage(call.bm)
                cmd == Command(<<"git", "stash", "push", "-u", "-m", msg>>, call.repoPath)
            IN  ret' = [ret EXCEPT
                          !.at = "returned",
                          !.cmds = Append(@, cmd),
                          !.info = IF stashErr THEN NilPtr
                                   ELSE Ptr(StashBackupInfo(call.repoName, <<"stash: ">> \o msg,
                                                            call.repoPath)),
                          !.err = IF stashErr THEN Ptr(BackupError(call.repoName, "git stash"))
                                  ELSE NilPtr]
    /\ UNCHANGED <<call, runVars>>

StashNext ==
    \/ CallHasUncommittedChanges
    \/ CallCreateStashBackup

StashSpec == StashInit /\ [][StashNext]_vars

\* The git stash commands a call ran.
StashCommands == SelectSeq(ret.cmds, LAMBDA c : c.argv[2] = "stash")

\* The call ran exactly one git stash push -u whose message has the timestamp.
OneStashPush ==
    /\ Len(StashCommands) = 1
    /\ SubSeq(StashCommands[1].argv, 1, 5) = <<"git", "stash", "push", "-u", "-m">>
    /\ \E k \in DOMAIN StashCommands[1].argv[6] :
           StashCommands[1].argv[6][k] = call.bm.Timestamp
    /\ StashCommands[1].dir = call.repoPath

\* The call returned the "git-stash" info without running a stash command.
NoStashNeeded ==
    /\ ret.err = NilPtr
    /\ ret.info # NilPtr
    /\ Deref(ret.info).BackupPath = <<"git-stash">>
    /\ Len(StashCommands) = 0

\* C18 as stated: on a tree without uncommitted changes CreateBackup returns
\* success with BackupPath "git-stash" and runs no stash command; on a dirty
\* tree it runs exactly one git stash push -u with the timestamp in its
\* message, and a failure of that command gives a BackupError "git stash".
C18_StashByTreeState ==
    (call.op = "CreateBackup" /\ ret # Pending /\ ret.at = "returned") =>
        IF call.changes = {}
        THEN NoStashNeeded
        ELSE /\ OneStashPush
             /\ ret.info = NilPtr => ret.err = Ptr(BackupError(call.repoName, "git stash"))

\* C18, amended: when the status query succeeds and reports no change,
\* CreateBackup returns success with BackupPath "git-stash" and runs no stash
\* command; when it reports a change or fails, exactly one git stash push -u
\* with the timestamp in its message is run, and a failure of that command
\* gives a BackupError "git stash" and no BackupInfo.
C18_StashByStatusQuery ==
    (call.op = "CreateBackup" /\ ret # Pending /\ ret.at = "returned") =>
        IF ~ret.statusErr /\ call.changes = {}
        THEN NoStashNeeded
        ELSE /\ OneStashPush
             /\ \/ ret.info # NilPtr /\ ret.err = NilPtr
                \/ ret.info = NilPtr /\ ret.err = Ptr(BackupError(call.repoName, "git stash"))

C18_Witness ==
    /\ call.op = "CreateBackup"
    /\ ret # Pending
    /\ ret.at = "returned"
    /\ call.changes = {"g"}
    /\ ~ret.statusErr
    /\ OneStashPush
    /\ ret.err = Ptr(BackupError(call.repoName, "git stash"))

\* C19: hasUncommittedChanges returns true when the status query fails, and
\* otherwise true exactly when the porcelain output is not empty.
C19_StatusFailSafe ==
    (call.op = "CreateBackup" /\ ret # Pending) =>
        /\ ret.statusErr => ret.changes
        /\ ~ret.statusErr => (ret.changes <=> call.changes # {})
        /\ ret.at = "checked" => ret.err = NilPtr

C19_Witness ==
    /\ call.op = "CreateBackup"
    /\ ret # Pending
    /\ ret.at = "checked"
    /\ ret.statusErr
    /\ call.changes = {}
    /\ ret.changes

\* ------------------------------------------------- copy backup, called
\* Permission bits of a file mode, and the modes and umasks used.
PermBits == {"ur", "uw", "ux", "gr", "gw", "gx", "or", "ow", "ox"}
Perm0755 == PermBits \ {"gw", "ow"}
Perm0664 == {"ur", "uw", "gr", "gw", "or"}
Perm0444 == {"ur", "gr", "or"}
FileModes == {Perm0664, Perm0444}
Umasks == {{"ow"}, {"gw", "ow"}}

\* File names of a working tree in byte order, the order filepath.Walk visits.
WalkOrder == <<".git", "20261101-101500", "HEAD", "a", "backups", "d", "f">>

\* Nodes of a file system: a path (sequence of names) maps to one of these.
DirNode(mode) == [kind |-> "dir", content |-> "", mode |-> mode, target |-> ""]
FileNode(content, mode) == [kind |-> "file", content |-> content, mode |-> mode, target |-> ""]
SymlinkNode(target) == [kind |-> "symlink", content |-> "", mode |-> PermBits, target |-> target]

Contents == {"x", "y"}
Targets == {"d", "/etc/hosts"}

NoNode == <<>>

\* What may be at path p when it is not a directory: nothing, a regular file
\* or a symbolic link.
LeafChoices(p) ==
    {NoNode} \cup {p :> FileNode(c, m) : c \in Contents, m \in FileModes}
             \cup {p :> SymlinkNode(t) : t \in Targets}

\* A .git directory with its HEAD file.
GitDir(p) == (p :> DirNode(Perm0755)) @@ (Append(p, "HEAD") :> FileNode("ref", Perm0664))

\* The working trees backed up: the repository directory holds .git (a
\* directory, or a link to one), maybe f, and maybe d, which is a link or a
\* directory that may hold .git (a directory or a file) and f.
WorkTrees ==
    { (<<>> :> DirNode(Perm0755)) @@ g @@ f @@ d :
        g \in {GitDir(<<".git">>), <<".git">> :> SymlinkNode("/srv/git")},
        f \in LeafChoices(<<"f">>),
        d \in {NoNode} \cup {<<"d">> :> SymlinkNode(t) : t \in Targets}
              \cup { (<<"d">> :> DirNode(Perm0755)) @@ dg @@ df :
                       dg \in {NoNode, GitDir(<<"d", ".git">>),
                               <<"d", ".git">> :> FileNode("gitdir", Perm0664)},
                       df \in LeafChoices(<<"d", "f">>) } }

Rank(n) == CHOOSE i \in 1..Len(WalkOrder) : WalkOrder[i] = n

IsPrefix(p, q) == Len(p) <= Len(q) /\ SubSeq(q, 1, Len(p)) = p

\* p is visited before q.
PathLess(p, q) ==
    \/ Len(p) < Len(q) /\ IsPrefix(p, q)
    \/ \E k \in 1..Len(p) :
        /\ k <= Len(q)
        /\ SubSeq(p, 1, k - 1) = SubSeq(q, 1, k - 1)
        /\ Rank(p[k]) < Rank(q[k])

\* The paths of S in the order filepath.Walk reaches them.
RECURSIVE WalkSeq(_)
WalkSeq(S) ==
    IF S = {} THEN <<>>
    ELSE LET m == CHOOSE x \in S : \A y \in S \ {x} : PathLess(x, y)
         IN  <<m>> \o WalkSeq(S \ {m})

\* filepath.Dir
Dir(p) == SubSeq(p, 1, Len(p) - 1)

\* os.MkdirAll(path, perm): creates the missing directories down to path.
MkdirAll(fs, path, perm, umask) ==
    LET missing == {SubSeq(path, 1, k) : k \in 0..Len(path)} \ DOMAIN fs
    IN  fs @@ [q \in missing |-> DirNode(perm \ umask)]

\* Where an operation on one path may fail.
FailPoints(node) ==
    CASE node.kind = "dir" -> {"none", "walk", "mkdir"}
      [] node.kind = "symlink" -> {"none", "walk", "readlink", "mkdir", "symlink"}
      [] OTHER -> {"none", "walk", "mkdir", "stat", "open", "create", "copy", "chmod"}

\* Mutant: the mode is not set after the copy.
copyFileNoChmod(fs, src, dst, umask, fail) ==
    LET fs1 == MkdirAll(fs, Dir(dst), Perm0755, umask)
        fs2 == (dst :> FileNode("", src.mode \ umask)) @@ fs1
        fs3 == (dst :> FileNode(src.content, fs2[dst].mode)) @@ fs2
    IN  CASE fail = "mkdir" -> [fs |-> fs, err |-> TRUE]
          [] fail \in {"stat", "open", "create"} -> [fs |-> fs1, err |-> TRUE]
          [] fail = "copy" -> [fs |-> fs2, err |-> TRUE]
          [] fail = "chmod" -> [fs |-> fs3, err |-> TRUE]
          [] OTHER -> [fs |-> fs3, err |-> FALSE]

\* BackupManager.copyFile(src, dst): [fs, err], fs the destination afterwards.
copyFile(fs, src, dst, umask, fail) ==
    LET fs1 == MkdirAll(fs, Dir(dst), Perm0755, umask)
        created == IF dst \in DOMAIN fs1 THEN fs1[dst].mode ELSE src.mode \ umask
        fs2 == (dst :> FileNode("", created)) @@ fs1
        fs3 == (dst :> FileNode(src.content, created)) @@ fs2
        fs4 == (dst :> FileNode(src.content, src.mode)) @@ fs3
    IN  CASE fail = "mkdir" -> [fs |-> fs, err |-> TRUE]
          [] fail \in {"stat", "open", "create"} -> [fs |-> fs1, err |-> TRUE]
          [] fail = "copy" -> [fs |-> fs2, err |-> TRUE]
          [] fail = "chmod" -> [fs |-> fs3, err |-> TRUE]
          [] OTHER -> [fs |-> fs4, err |-> FALSE]

\* copyRepository's callback: info.IsDir() && info.Name() == ".git"
SkipsDir(path, info) == info.kind = "dir" /\ Len(path) > 0 /\ path[Len(path)] = ".git"

\* copyRepository's callback on one path: [fs, err, skip].
WalkFn(fs, path, info, umask, fail) ==
    IF fail = "walk" THEN [fs |-> fs, err |-> TRUE, skip |-> FALSE]
    ELSE IF SkipsDir(path, info) THEN [fs |-> fs, err |-> FALSE, skip |-> TRUE]
    ELSE IF info.kind = "symlink"
    THEN LET fs1 == MkdirAll(fs, Dir(path), Perm0755, umask)
             removed == [q \in DOMAIN fs1 \ {path} |-> fs1[q]]
         IN  CASE fail = "readlink" -> [fs |-> fs, err |-> TRUE, skip |-> FALSE]
               [] fail = "mkdir" -> [fs |-> fs, err |-> TRUE, skip |-> FALSE]
               [] fail = "symlink" -> [fs |-> removed, err |-> TRUE, skip |-> FALSE]
               [] OTHER -> [fs |-> (path :> SymlinkNode(info.target)) @@ removed,
                            err |-> FALSE, skip |-> FALSE]
    ELSE IF info.kind = "dir"
    THEN IF fail = "mkdir" THEN [fs |-> fs, err |-> TRUE, skip |-> FALSE]
         ELSE [fs |-> MkdirAll(fs, path, info.mode, umask), err |-> FALSE, skip |-> FALSE]
    ELSE LET r == copyFile(fs, info, path, umask, fail)
         IN  [fs |-> r.fs, err |-> r.err, skip |-> FALSE]

\* createCopyBackup: filepath.Join(bm.BackupDir, repoName)
BackupPathOf(c) == Append(c.bm.BackupDir, c.repoName)

\* The backup directory lies inside the repository that is backed up.
InsideRepo(c) == IsPrefix(c.repoPath, BackupPathOf(c))

\* The file system fs, seen from prefix levels above its root.
Rebase(fs, prefix) ==
    [p \in {prefix \o q : q \in DOMAIN fs} |-> fs[SubSeq(p, Len(prefix) + 1, Len(p))]]

\* What is under the repository path, given what is under the backup path.
LiveTree(c, backup) ==
    IF InsideRepo(c)
    THEN Rebase(backup, SubSeq(BackupPathOf(c), Len(c.repoPath) + 1, Len(BackupPathOf(c))))
         @@ c.tree
    ELSE c.tree

\* readDirNames(path): the entries directly in directory p.
Children(fs, p) == {q \in DOMAIN fs : Len(q) = Len(p) + 1 /\ IsPrefix(p, q)}

\* Longest path, in names, the file system accepts (PATH_MAX).
MaxPathLen == 9

TooLong(c, path) == Len(BackupPathOf(c)) + Len(path) > MaxPathLen

\* bm.BackupDir as NewBackupManager made it: outside the repository, or in it.
BackupDirs(repoPath, ts) == {<<"srv", "backups", ts>>, repoPath \o <<"backups", ts>>}

\* &BackupInfo{...} of the copy strategy; Timestamp is time.Now() and is left out.
CopyBackupInfo(repoName, backupPath, repoPath) ==
    [Repository |-> repoName, BackupPath |-> backupPath, Strategy |-> "copy",
     OriginalPath |-> repoPath]

CopyInit ==
    /\ Idle
    /\ call \in {[op |-> "CreateBackup",
                  bm |-> [BackupDir |-> b, Strategy |-> "copy", Timestamp |-> "20261101-101500"],
                  repoPath |-> <<"baseDir", "a">>, repoName |-> "a",
                  tree |-> IF IsPrefix(<<"baseDir", "a">>, b)
                           THEN t @@ (<<"backups">> :> DirNode(Perm0755))
                                  @@ (<<"backups", "20261101-101500">> :> DirNode(Perm0755))
                           ELSE t,
                  umask |-> u] :
                  b \in BackupDirs(<<"baseDir", "a">>, "20261101-101500"),
                  t \in WorkTrees, u \in Umasks}
    /\ ret = Pending

\* createCopyBackup: os.MkdirAll(backupPath, 0755), then the walk begins.
CallCreateCopyBackup ==
    /\ call.op = "CreateBackup"
    /\ ret = Pending
    /\ \E created \in BOOLEAN :
        ret' = IF ~created
               THEN [at |-> "returned", todo |-> <<>>, backup |-> NoNode, visited |-> <<>>,
                     last |-> "CreateBackup", opErr |-> NIL, fault |-> "mkdir",
                     info |-> NilPtr,
                     err |-> Ptr(BackupError(call.repoName, "create directory"))]
               ELSE [at |-> "walk", todo |-> <<<<>>>>,
                     backup |-> MkdirAll(NoNode, <<>>, Perm0755, call.umask),
                     visited |-> <<>>, last |-> "CreateBackup", opErr |-> NIL,
                     fault |-> "none", info |-> NilPtr, err |-> NilPtr]
    /\ UNCHANGED <<call, runVars>>

\* copyRepository: filepath.Walk reaches the next path: a directory's names
\* are read, the callback is called, and the names are walked next unless the
\* callback returned SkipDir.
WalkStep ==
    /\ call.op = "CreateBackup"
    /\ ret # Pending
    /\ ret.at = "walk"
    /\ ret.todo # <<>>
    /\ LET path == Head(ret.todo)
           live == LiveTree(call, ret.backup)
           info == live[path]
           names == IF info.kind = "dir" THEN WalkSeq(Children(live, path)) ELSE <<>>
       IN  \E fail \in (IF TooLong(call, path) THEN FailPoints(info) \ {"none"}
                                                ELSE FailPoints(info)) :
           LET r == WalkFn(ret.backup, path, info, call.umask, fail)
           IN  ret' = IF r.err
                      THEN [ret EXCEPT !.at = "returned", !.backup = r.fs,
                                       !.visited = Append(@, path),
                                       !.fault = fail,
                                       !.err = Ptr(BackupError(call.repoName, "copy files"))]
                      ELSE [ret EXCEPT !.backup = r.fs,
                                       !.visited = Append(@, path),
                                       !.todo = IF r.skip THEN Tail(@)
                                                          ELSE names \o Tail(@)]
    /\ UNCHANGED <<call, runVars>>

\* createCopyBackup: the walk returned nil, the BackupInfo is returned.
CopyReturn ==
    /\ call.op = "CreateBackup"
    /\ ret # Pending
    /\ ret.at = "walk"
    /\ ret.todo = <<>>
    /\ ret' = [ret EXCEPT !.at = "returned",
                          !.info = Ptr(CopyBackupInfo(call.repoName,
                                                      BackupPathOf(call),
                                                      call.repoPath))]
    /\ UNCHANGED <<call, runVars>>

\* Mutant: the backup is copied back and nil is returned.
RestoreBackupDone(backup, backupInfo) == [backup |-> NoNode, err |-> NIL]

\* BackupManager.RestoreBackup(backupInfo): [backup, err], backup what is under
\* the backup path afterwards.
RestoreBackup(backup, backupInfo) ==
    [backup |-> backup, err |-> "restore functionality not yet implemented"]

\* BackupManager.CleanupOldBackups(days): [backup, err].
CleanupOldBackups(backup, days) ==
    [backup |-> backup, err |-> "cleanup functionality not yet implemented"]

\* Retention periods handed to CleanupOldBackups.
RetentionDays == {-1, 0, 7}

\* bm.RestoreBackup(info) on the BackupInfo CreateBackup returned.
CallRestoreBackup ==
    /\ call.op = "CreateBackup"
    /\ ret # Pending
    /\ ret.at = "returned"
    /\ ret.info # NilPtr
    /\ LET r == RestoreBackup(ret.backup, Deref(ret.info))
       IN  ret' = [ret EXCEPT !.last = "RestoreBackup", !.backup = r.backup, !.opErr = r.err]
    /\ UNCHANGED <<call, runVars>>

\* bm.CleanupOldBackups(days) after a backup.
CallCleanupOldBackups ==
    /\ call.op = "CreateBackup"
    /\ ret # Pending
    /\ ret.at = "returned"
    /\ \E days \in RetentionDays :
        LET r == CleanupOldBackups(ret.backup, days)
        IN  ret' = [ret EXCEPT !.last = "CleanupOldBackups", !.backup = r.backup,
                               !.opErr = r.err]
    /\ UNCHANGED <<call, runVars>>

CopyNext ==
    \/ CallCreateCopyBackup
    \/ WalkStep
    \/ CopyReturn
    \/ CallRestoreBackup
    \/ CallCleanupOldBackups

CopySpec == CopyInit /\ [][CopyNext]_vars

\* Path p of the working tree lies in a .git directory (or is one).
UnderGit(tree, p) ==
    \E k \in 1..Len(p) :
        /\ p[k] = ".git"
        /\ SubSeq(p, 1, k) \in DOMAIN tree
        /\ tree[SubSeq(p, 1, k)].kind = "dir"

\* C20: after a successful copy backup every regular file of the working tree
\* outside the .git directories is in the backup at the same relative path
\* with the same content and mode, every symbolic link is a link with the same
\* target, and the backup holds no .git directory and no path under one.
C20_CopyRoundTrip ==
    (call.op = "CreateBackup" /\ ret # Pending /\ ret.at = "returned" /\ ret.err = NilPtr) =>
        /\ \A p \in DOMAIN call.tree :
            (call.tree[p].kind \in {"file", "symlink"} /\ ~UnderGit(call.tree, p)) =>
                /\ p \in DOMAIN ret.backup
                /\ ret.backup[p] = call.tree[p]
        /\ \A q \in DOMAIN ret.backup :
            /\ ~UnderGit(call.tree, q)
            /\ ~UnderGit(ret.backup, q)

C20_Witness ==
    /\ call.op = "CreateBackup"
    /\ ret # Pending
    /\ ret.at = "returned"
    /\ ret.err = NilPtr
    /\ call.umask = {"gw", "ow"}
    /\ <<"d", ".git", "HEAD">> \in DOMAIN call.tree
    /\ <<"d", "f">> \in DOMAIN call.tree
    /\ call.tree[<<"d", "f">>].mode = Perm0664
    /\ <<"f">> \in DOMAIN call.tree
    /\ call.tree[<<"f">>].kind = "symlink"
    /\ ret.backup[<<"d", "f">>] = FileNode("y", Perm0664)

\* C21: whatever the backup directory is, a copy backup leaves the files,
\* directories and links under the repository path, and their contents, as
\* they were when createCopyBackup was called.
C21_LiveRepoUnchanged ==
    (call.op = "CreateBackup" /\ ret # Pending) =>
        LiveTree(call, ret.backup) = call.tree

MaxSeconds == 2
SubSeconds == 2

Runs == {1, 2}

\* Values of backup.directory; "" is not set.
BackupDirectories == {"", "./backups", "/srv/b"}

\* time.Now().Format("20060102-150405"): the layout has no fraction of a second.
Format(now) == <<"20261101-1015", now.sec>>

\* NewBackupManager(backupDir, strategy) at instant now: [exited, manager];
\* created tells whether os.MkdirAll of the root succeeded.
NewBackupManager(backupDir, strategy, now, created) ==
    LET timestamp == Format(now)
        dir == IF backupDir = "" THEN "./backups" ELSE backupDir
        fullBackupDir == <<dir, timestamp>>
    IN  IF ~created
        THEN [exited |-> TRUE, manager |-> NilPtr]
        ELSE [exited |-> FALSE,
              manager |-> Ptr([BackupDir |-> fullBackupDir, Strategy |-> strategy,
                               Timestamp |-> timestamp])]

RunsInit ==
    /\ Idle
    /\ call \in {[op |-> "runs", directory |-> d] : d \in [Runs -> BackupDirectories]}
    /\ ret = [now |-> [sec |-> 0, frac |-> 0],
              manager |-> [r \in Runs |-> NilPtr],
              exited |-> [r \in Runs |-> FALSE],
              written |-> {}]

\* Time passes.
ClockTick ==
    /\ call.op = "runs"
    /\ IF ret.now.frac + 1 < SubSeconds
       THEN ret' = [ret EXCEPT !.now.frac = @ + 1]
       ELSE /\ ret.now.sec < MaxSeconds
            /\ ret' = [ret EXCEPT !.now = [sec |-> @.sec + 1, frac |-> 0]]
    /\ UNCHANGED <<call, runVars>>

\* Run r constructs its backup manager.
RunNewBackupManager(r) ==
    /\ call.op = "runs"
    /\ ret.manager[r] = NilPtr
    /\ ~ret.exited[r]
    /\ \E created \in BOOLEAN :
        LET m == NewBackupManager(call.directory[r], "copy", ret.now, created)
        IN  ret' = [ret EXCEPT !.manager[r] = m.manager, !.exited[r] = m.exited]
    /\ UNCHANGED <<call, runVars>>

\* Run r backs up a repository: it writes under its root directory.
RunCreateBackup(r) ==
    /\ call.op = "runs"
    /\ ret.manager[r] # NilPtr
    /\ \E n \in Names :
        ret' = [ret EXCEPT !.written = @ \cup {[run |-> r, repo |-> n,
                                                root |-> Deref(ret.manager[r]).BackupDir]}]
    /\ UNCHANGED <<call, runVars>>

RunsNext ==
    \/ ClockTick
    \/ \E r \in Runs : RunNewBackupManager(r)
    \/ \E r \in Runs : RunCreateBackup(r)

RunsSpec == RunsInit /\ [][RunsNext]_vars

\* C23: two runs with the same backup.directory have distinct root
\* directories, and no run writes a backup under the root of another run.
C23_DistinctRoots ==
    call.op = "runs" =>
        \A r1 \in Runs : \A r2 \in Runs \ {r1} :
            (/\ call.directory[r1] = call.directory[r2]
             /\ ret.manager[r1] # NilPtr
             /\ ret.manager[r2] # NilPtr) =>
                /\ Deref(ret.manager[r1]).BackupDir # Deref(ret.manager[r2]).BackupDir
                /\ \A w \in ret.written :
                     w.run = r1 => w.root # Deref(ret.manager[r2]).BackupDir

\* ------------------------------------------------------- configuration
\* Options bound to a flag, an environment variable and a configuration key,
\* with the defaults of config.SetDefaultConfig.
DefaultOf(key) ==
    CASE key = "backup.directory" -> "./backups"
      [] key = "backup.strategy" -> "copy"
      [] OTHER -> "./git_repos"

OptionKeys == {"git.base_dir", "backup.directory", "backup.strategy"}

\* Values a source may give to an option; NIL: the source does not set it.
OptionValues == {NIL, "v1", "v2", "v3"}

\* cobra parses the flags into config.Properties, which init() filled with
\* the defaults: the field holds the flag's value when the flag was passed.
ParseFlag(default, flag) == IF flag # NIL THEN flag ELSE default

\* viper's value of a key after ReadInConfig, BindEnv and AutomaticEnv: a
\* bound environment variable comes before the configuration file.
ViperGet(env, file) == IF env # NIL THEN env ELSE file

\* viper.Unmarshal(&config.Properties): a key viper has a value for is written
\* to its field, every other field keeps what it holds.
Unmarshal(field, value) == IF value # NIL THEN value ELSE field

ConfigInit ==
    /\ Idle
    /\ call \in {[op |-> "initConfig", key |-> k, file |-> f, env |-> e, flag |-> c] :
                  k \in OptionKeys, f \in OptionValues, e \in OptionValues,
                  c \in OptionValues}
    /\ ret = [at |-> "init", Properties |-> DefaultOf(call.key)]

\* rootCmd.Execute: the flags are parsed into config.Properties.
ParseFlags ==
    /\ call.op = "initConfig"
    /\ ret.at = "init"
    /\ ret' = [at |-> "flags", Properties |-> ParseFlag(ret.Properties, call.flag)]
    /\ UNCHANGED <<call, runVars>>

\* initConfig: the file and the environment are read and unmarshalled.
InitConfig ==
    /\ call.op = "initConfig"
    /\ ret.at = "flags"
    /\ ret' = [at |-> "config",
               Properties |-> Unmarshal(ret.Properties, ViperGet(call.env, call.file))]
    /\ UNCHANGED <<call, runVars>>

ConfigNext ==
    \/ ParseFlags
    \/ InitConfig

ConfigSpec == ConfigInit /\ [][ConfigNext]_vars

\* C24: the value of an option is the configuration file's when the file sets
\* it, else the environment variable's, else the flag's, else the default.
C24_FileOverEnvOverFlag ==
    (call.op = "initConfig" /\ ret.at = "config") =>
        ret.Properties = (IF call.file # NIL THEN call.file
                          ELSE IF call.env # NIL THEN call.env
                          ELSE IF call.flag # NIL THEN call.flag
                          ELSE DefaultOf(call.key))

\* C25: at no moment is a repository in the hands of more than one worker
\* (at most one repository is in progress at all), the names and paths of the
\* repositories of a run are distinct, and no repository is pulled twice.
C25_OneWorkerPerRepo ==
    /\ Cardinality(InProgress) <= 1
    /\ \A i \in DOMAIN repositories : \A j \in DOMAIN repositories :
         i # j => /\ repositories[i].Name # repositories[j].Name
                  /\ repositories[i].Path # repositories[j].Path
    /\ \A i \in EventsOf("pull") : \A j \in EventsOf("pull") :
         i # j => events[i].repo # events[j].repo
    /\ \A i \in EventsOf("begin") : \A j \in EventsOf("begin") :
         i # j => events[i].repo # events[j].repo

C25_Witness ==
    /\ LoopEnded
    /\ Len(repositories) = 2
    /\ Cardinality(EventsOf("pull")) = 2
    /\ Cardinality(EventsOf("pullFailed")) = 1

\* C26: no option sets the timeout, so the per-repository timeout handed to
\* the orchestrator is the default of 5 minutes, and it is strictly positive.
C26_DefaultTimeoutFiveMinutes ==
    updateConfig # EmptyUpdateConfig =>
        /\ updateConfig.Parallel.Timeout = 5 * Minute
        /\ updateConfig.Parallel.Timeout > 0

\* C27: a copy backup in which an I/O operation fails ends at that operation
\* with a BackupError "create directory" (the target directory) or "copy
\* files" (the walk) and no BackupInfo; nothing but the path being copied is
\* touched by the failing step, and what was in the backup directory before
\* it is still there.
C27_FailureAbortsNoRollback ==
    [][(/\ call.op = "CreateBackup"
        /\ ret' # ret
        /\ ret'.last = "CreateBackup"
        /\ ret'.fault # "none") =>
          /\ ret'.at = "returned"
          /\ ret'.info = NilPtr
          /\ ret'.err # NilPtr
          /\ Deref(ret'.err).Repository = call.repoName
          /\ Deref(ret'.err).Operation =
                 (IF ret = Pending THEN "create directory" ELSE "copy files")
          /\ ret # Pending =>
               /\ \A q \in DOMAIN ret.backup :
                    q \in DOMAIN ret'.backup /\ ret'.backup[q] = ret.backup[q]
               /\ DOMAIN ret'.backup \ DOMAIN ret.backup \subseteq {Head(ret.todo)}
               /\ \A q \in DOMAIN call.tree :
                    (q \notin DOMAIN ret.backup /\ q # Head(ret.todo)) =>
                        q \notin DOMAIN ret'.backup]_vars

C27_Witness ==
    /\ call.op = "CreateBackup"
    /\ ret # Pending
    /\ ret.at = "returned"
    /\ ret.fault = "copy"
    /\ ret.visited = <<<<>>, <<".git">>, <<"d">>, <<"d", "f">>>>
    /\ <<"f">> \in DOMAIN call.tree
    /\ <<"f">> \notin DOMAIN ret.backup
    /\ <<"d", "f">> \in DOMAIN ret.backup
    /\ Deref(ret.err).Operation = "copy files"

\* C28: in a run with backup disabled, whatever the strategy, no backup
\* manager is built (so no timestamped root is created) and CreateBackup is
\* called for no repository.
C28_DisabledNoBackupEffects ==
    ~cfg.backupEnabled =>
        /\ backupManager = NilPtr
        /\ "backupRoot" \notin precond
        /\ fatalAt # "NewBackupManager"
        /\ updateConfig.BackupManager.ptr = NilPtr
        /\ ~updateConfig.BackupEnabled
        /\ EventsOf("backup") \cup EventsOf("backupError") = {}

C28_Witness ==
    /\ ~cfg.backupEnabled
    /\ cfg.strategy = "stash"
    /\ LoopEnded
    /\ Len(repositories) = 2
    /\ Cardinality(EventsOf("pullOk")) = 2

\* ------------------------------------------------------------ self-update
\* fmt.Sprintf("%s-%s-%s", config.CLIName, runtime.GOOS, runtime.GOARCH)
AssetName == "updateGit-linux-amd64"

\* Names of the assets a release may hold.
AssetNames == {AssetName, "checksums.txt", "updateGit-darwin-arm64"}

\* Bodies the download of the binary asset may deliver.
Binaries == {"good", "evil"}

\* sha256.Sum256 and hex.EncodeToString: lower-case hexadecimal digits.
Sha256Hex(bytes) == IF bytes = "good" THEN "aa11" ELSE "bb22"

\* Lines of checksums.txt, each as strings.Fields splits it.
ChecksumLines ==
    { <<"aa11", AssetName>>, <<"bb22", AssetName>>, <<"AA11", AssetName>>,
      <<"aa11", "*updateGit-linux-amd64">>, <<"aa11", "updateGit-darwin-arm64">>,
      <<"aa11">>, <<>> }

\* Longest checksums.txt, in lines.
MaxLines == 2

ChecksumFiles == UNION {[1..n -> ChecksumLines] : n \in 0..MaxLines}

\* Mutant: the first well-formed line is taken, whatever file it names.
ParseChecksumAnyFile(checksumsContent, fileName) ==
    LET RECURSIVE Loop(_)
        Loop(lines) ==
            IF lines = <<>> THEN [checksum |-> "", err |-> TRUE]
            ELSE IF Len(Head(lines)) = 2
                 THEN [checksum |-> Head(lines)[1], err |-> FALSE]
                 ELSE Loop(Tail(lines))
    IN  Loop(checksumsContent)

\* update.ParseChecksum(checksumsContent, fileName): [checksum, err]
ParseChecksum(checksumsContent, fileName) ==
    LET RECURSIVE Loop(_)
        Loop(lines) ==
            IF lines = <<>> THEN [checksum |-> "", err |-> TRUE]
            ELSE LET parts == Head(lines)
                 IN  IF Len(parts) = 2 /\ parts[2] = fileName
                     THEN [checksum |-> parts[1], err |-> FALSE]
                     ELSE Loop(Tail(lines))
    IN  Loop(checksumsContent)

\* The files next to the executable: the executable, <executable>.old and
\* the temporary file, each "none" when it does not exist.
InstalledFiles == [exe |-> "old", old |-> "none", tmp |-> "none"]

UpdateInit ==
    /\ Idle
    /\ call \in {[op |-> "ApplyUpdate", assets |-> a, checksums |-> c, binary |-> b] :
                  a \in SUBSET AssetNames, c \in ChecksumFiles, b \in Binaries}
    /\ ret = [at |-> "assets", exited |-> FALSE, files |-> InstalledFiles,
              gotChecksums |-> FALSE, gotBinary |-> FALSE]

\* The process ends in common.Logger("fatal", ...).
UpdateFatal == [ret EXCEPT !.at = "ended", !.exited = TRUE]

\* ApplyUpdate: the platform asset and checksums.txt are looked up.
FindAssets ==
    /\ call.op = "ApplyUpdate"
    /\ ret.at = "assets"
    /\ ret' = IF AssetName \notin call.assets \/ "checksums.txt" \notin call.assets
              THEN UpdateFatal
              ELSE [ret EXCEPT !.at = "download"]
    /\ UNCHANGED <<call, runVars>>

\* ApplyUpdate: checksums.txt, then the binary, are downloaded.
Download ==
    /\ call.op = "ApplyUpdate"
    /\ ret.at = "download"
    /\ \E okChecksums \in BOOLEAN : \E okBinary \in BOOLEAN :
        ret' = IF ~okChecksums THEN UpdateFatal
               ELSE IF ~okBinary THEN [UpdateFatal EXCEPT !.gotChecksums = TRUE]
               ELSE [ret EXCEPT !.at = "verify", !.gotChecksums = TRUE, !.gotBinary = TRUE]
    /\ UNCHANGED <<call, runVars>>

\* ApplyUpdate: the checksum of the asset is looked up and compared.
VerifyChecksum ==
    /\ call.op = "ApplyUpdate"
    /\ ret.at = "verify"
    /\ LET expected == ParseChecksum(call.checksums, AssetName)
           actualChecksumStr == Sha256Hex(call.binary)
       IN  ret' = IF expected.err THEN UpdateFatal
                  ELSE IF actualChecksumStr # expected.checksum THEN UpdateFatal
                  ELSE [ret EXCEPT !.at = "temp"]
    /\ UNCHANGED <<call, runVars>>

\* ApplyUpdate: os.Executable, os.CreateTemp, Write, Close and Chmod.
WriteTemp ==
    /\ call.op = "ApplyUpdate"
    /\ ret.at = "temp"
    /\ \E fail \in {"none", "executable", "createTemp", "write", "chmod"} :
        ret' = CASE fail \in {"executable", "createTemp"} -> UpdateFatal
                 [] fail = "write" -> [UpdateFatal EXCEPT !.files.tmp = "partial"]
                 [] fail = "chmod" -> [UpdateFatal EXCEPT !.files.tmp = call.binary]
                 [] OTHER -> [ret EXCEPT !.at = "renameOld", !.files.tmp = call.binary]
    /\ UNCHANGED <<call, runVars>>

\* ApplyUpdate: os.Rename(executablePath, oldPath)
RenameOld ==
    /\ call.op = "ApplyUpdate"
    /\ ret.at = "renameOld"
    /\ \E renamed \in BOOLEAN :
        ret' = IF ~renamed THEN UpdateFatal
               ELSE [ret EXCEPT !.at = "renameNew",
                                !.files.old = ret.files.exe, !.files.exe = "none"]
    /\ UNCHANGED <<call, runVars>>

\* ApplyUpdate: os.Rename(tmpFile.Name(), executablePath); when it fails the
\* old binary is renamed back, the error of that rename is dropped, and the
\* process ends.  On success the deferred Close and Remove run.
RenameNew ==
    /\ call.op = "ApplyUpdate"
    /\ ret.at = "renameNew"
    /\ \E renamed \in BOOLEAN : \E restored \in BOOLEAN :
        ret' = IF renamed
               THEN [ret EXCEPT !.at = "ended",
                                !.files.exe = ret.files.tmp, !.files.tmp = "none"]
               ELSE IF restored
               THEN [UpdateFatal EXCEPT !.files.exe = ret.files.old, !.files.old = "none"]
               ELSE UpdateFatal
    /\ UNCHANGED <<call, runVars>>

UpdateNext ==
    \/ FindAssets
    \/ Download
    \/ VerifyChecksum
    \/ WriteTemp
    \/ RenameOld
    \/ RenameNew

UpdateSpec == UpdateInit /\ [][UpdateNext]_vars

\* The lines of checksums.txt that are an entry for the asset.
AssetEntries == {i \in DOMAIN call.checksums :
                    Len(call.checksums[i]) = 2 /\ call.checksums[i][2] = AssetName}

\* C29: the executable is renamed or replaced only if the release holds the
\* platform asset and checksums.txt, both were downloaded, checksums.txt has
\* an entry for the asset and the SHA-256 of the downloaded binary equals it;
\* otherwise the executable is what it was.
C29_ReplacedOnlyIfVerified ==
    (call.op = "ApplyUpdate" /\ (ret.files.exe # "old" \/ ret.files.old # "none")) =>
        /\ AssetName \in call.assets
        /\ "checksums.txt" \in call.assets
        /\ ret.gotChecksums
        /\ ret.gotBinary
        /\ AssetEntries # {}
        /\ \E i \in AssetEntries :
             /\ \A j \in AssetEntries : i <= j
             /\ call.checksums[i][1] = Sha256Hex(call.binary)
        /\ ret.files.exe \in {call.binary, "none", "old"}

C29_Witness ==
    /\ call.op = "ApplyUpdate"
    /\ ret.at = "ended"
    /\ ~ret.exited
    /\ ret.files.exe = "evil"
    /\ ret.files.old = "old"
    /\ call.checksums = <<<<"aa11", "updateGit-darwin-arm64">>, <<"bb22", AssetName>>>>

\* C30: when ApplyUpdate has ended, by returning or by a fatal log at any
\* step, a binary is at the executable path.
C30_BinaryAlwaysInPlace ==
    (call.op = "ApplyUpdate" /\ ret.at = "ended") => ret.files.exe # "none"

====
